---- MODULE Spec2Model ----
(***************************************************************************)
(* Model of the Tronity connector: the polling control loop of             *)
(* connector.py (startup / _background_loop / shutdown), its request       *)
(* helper and charging command (_fetch_data / __on_charging_start_stop),   *)
(* the session cache of auth/session_manager.py (get_session / persist)    *)
(* and the token operations of auth/tronity_session.py (login / refresh).  *)
(***************************************************************************)
EXTENDS Integers, Sequences, FiniteSets, TLC

\* ---------------------------------------------------------------- bounds
\* number of Thread objects startup() may create in one run
MaxThreads == 2
\* number of get_session calls in one run of the session manager
MaxCalls == 3
\* number of distinct timestamps datetime.now() is seen to return before the
\* model reuses one (last_update only has to be seen to change)
MaxStamp == 2

\* ------------------------------------------------------ program constants
\* connector.py:128  interval = 300
DefaultInterval == 300
\* connector.py:143  self._stop_event.wait(900)
Cooldown == 900

\* ---------------------------------------------------------------- inputs
\* self.interval.value: <<>> is None, <<s>> is timedelta(seconds=s)
IntervalValues == {<<>>, <<1200>>}
\* what one fetch cycle can end with: the exception classes the loop names,
\* "Exception" for any other exception, "success" for a normal return
Classified ==
    {"TooManyRequestsError", "RetrievalError", "APICompatibilityError",
     "TemporaryAuthenticationError"}
Outcomes == {"success", "Exception"} \cup Classified
\* vehicles the API can list
Vins == {"VIN1", "VIN2"}
Threads == 1..MaxThreads
\* the members of the Service enum
Services == {"Tronity"}
\* SessionCredentials objects: 1 and 2 are distinct objects with equal fields,
\* 3 has other fields with the same str() as 1 and 2
CredObjs == {1, 2, 3}
\* a token is a dict of the fields the token endpoint returned; None is kept
\* apart from every dict
NoToken == [None |-> "None"]
\* the token the stores hold from an earlier run
StoredToken == [access_token |-> "A0", refresh_token |-> "R0"]

VARIABLES
    \* ---- Connector (connector.py)
    mainpc,            \* position of the caller of startup()/shutdown()
    bgThread,          \* self._background_thread: 0 is None, else a thread
    nthreads,          \* Thread objects created so far
    pc,                \* position of each background thread
    notified,          \* thread is in Event.wait() and the event was set
    stop_event,        \* self._stop_event flag
    connection_state,  \* self.connection_state
    healthy,           \* self.healthy
    last_update,       \* self.last_update: 0 never set, else a timestamp
    intervalValue,     \* self.interval.value
    garage,            \* car_connectivity.garage, per VIN
    \* ---- SessionManager (auth/session_manager.py)
    sessions,          \* self.sessions: (service, credentials) -> session
    heap,              \* the TronitySession objects, in creation order
    tokenstore,        \* self.tokenstore
    cachestore,        \* self.cache
    \* ---- observations
    lastCycle,         \* outcome, state and wait of the last classified cycle
    trace,             \* the last cycles, while they follow Script
    stopSeen,          \* threads that were running when the stop was set
    sdlog,             \* steps the running shutdown() has completed
    call,              \* the last get_session call and what it returned
    ncalls,            \* get_session calls so far
    op,                \* the last session operation and how it ended
    saved,             \* what the sessions held when persist() last ran
    \* ---- the running fetch cycle
    fetching,          \* per thread: what fetch_all() has raised so far
    \* ---- a refresh_tokens call that has parsed its answer (134) and has
    \* not yet run line 135: <<>> when there is none
    refreshing,
    \* ---- the VINs of the vehicle list the last cycle received, as <<S>>,
    \* in the specification that follows the garage: <<>> elsewhere
    listing

connVars == <<mainpc, bgThread, nthreads, pc, notified, stop_event,
              connection_state, healthy, last_update, intervalValue, garage>>
mgrVars == <<sessions, heap, tokenstore, cachestore>>
obsVars == <<lastCycle, trace, stopSeen, sdlog, call, ncalls>>
sessVars == <<op, saved, fetching, refreshing, listing>>
vars == <<connVars, mgrVars, obsVars, sessVars>>

\* ======================================================= session_manager.py
CredId(o) == IF o = 3 THEN "a:b" ELSE "a"
CredSecret(o) == IF o = 3 THEN "c" ELSE "b:c"

\* SessionCredentials.__str__
CredStr(o) == CredId(o) \o ":" \o CredSecret(o)

\* hashlib.sha512(...).hexdigest(): a digest is modelled as a function of the
\* hashed string that no two strings share
Sha512(s) == "sha512(" \o s \o ")"

generate_hash(service, o) == Sha512(service \o CredStr(o))

generate_identifier(service, o) ==
    "CarConnectivity-connector-tronity:" \o generate_hash(service, o)

\* the dictionary key (service, session_user): SessionCredentials defines
\* neither __eq__ nor __hash__, so the key is the object itself
SessionKey(service, o) == <<service, o>>

HasSession_Never(service, o) == FALSE

\* if (service, session_user) in self.sessions
HasSession(service, o) == SessionKey(service, o) \in DOMAIN sessions

\* the TronitySession get_session builds when the key is new
NewSession(service, o) ==
    LET identifier == generate_identifier(service, o)
        entry == IF identifier \in DOMAIN tokenstore
                 THEN tokenstore[identifier] ELSE <<>>
    IN  [key |-> SessionKey(service, o),
         service |-> service,
         user |-> o,
         token |-> IF "token" \in DOMAIN entry
                   THEN entry["token"] ELSE NoToken,
         metadata |-> IF "metadata" \in DOMAIN entry
                      THEN entry["metadata"] ELSE "{}",
         cache |-> IF identifier \in DOMAIN cachestore
                   THEN cachestore[identifier] ELSE "{}"]

Extend(f, k, v) == [x \in DOMAIN f \cup {k} |-> IF x = k THEN v ELSE f[x]]

get_session(service, o) ==
    /\ ncalls < MaxCalls
    /\ ncalls' = ncalls + 1
    /\ IF HasSession(service, o)
       THEN /\ call' = [service |-> service, user |-> o,
                        session |-> sessions[SessionKey(service, o)],
                        raised |-> "none"]
            /\ UNCHANGED mgrVars
       ELSE IF service = "Tronity"
       THEN /\ heap' = Append(heap, NewSession(service, o))
            /\ sessions' = Extend(sessions, SessionKey(service, o),
                                  Len(heap) + 1)
            /\ call' = [service |-> service, user |-> o,
                        session |-> Len(heap) + 1, raised |-> "none"]
            /\ UNCHANGED <<tokenstore, cachestore>>
       ELSE /\ call' = [service |-> service, user |-> o, session |-> 0,
                        raised |-> "ValueError"]
            /\ UNCHANGED mgrVars
    /\ UNCHANGED <<connVars, lastCycle, trace, stopSeen, sdlog>>
    /\ UNCHANGED sessVars

\* the stores after persist() has written sessions i..Len(heap), in the
\* order self.sessions.items() yields them (insertion order)
RECURSIVE PersistFrom(_, _)
PersistFrom(i, stores) ==
    IF i > Len(heap) THEN stores
    ELSE LET s == heap[i]
             identifier == generate_identifier(s.service, s.user)
         IN  PersistFrom(i + 1,
                 [ts |-> Extend(stores.ts, identifier,
                                [k \in {"token", "metadata"} |->
                                   IF k = "token" THEN s.token
                                   ELSE s.metadata]),
                  cs |-> Extend(stores.cs, identifier, s.cache)])

Persisted == PersistFrom(1, [ts |-> tokenstore, cs |-> cachestore])

\* what each live session holds, by key
Snapshot ==
    [k \in DOMAIN sessions |->
        [token |-> heap[sessions[k]].token,
         metadata |-> heap[sessions[k]].metadata,
         cache |-> heap[sessions[k]].cache]]

persist ==
    /\ heap # <<>>
    /\ tokenstore' = Persisted.ts
    /\ cachestore' = Persisted.cs
    /\ saved' = Snapshot
    /\ UNCHANGED <<sessions, heap, connVars, obsVars, op, fetching,
                   refreshing, listing>>

\* SessionManager(tokenstore, cache) of a later run, lines 50-53: a manager
\* with no session, over the stores as the earlier manager left them
SessionManager_init ==
    /\ sessions # <<>>
    /\ sessions' = <<>>
    /\ heap' = <<>>
    /\ UNCHANGED <<tokenstore, cachestore, connVars, obsVars, sessVars>>

\* ======================================================= tronity_session.py
\* no session operation has run yet; of an operation: its name and session,
\* the exception it raised, the statuses it received in order, its posts
\* to the token endpoint, its login() calls, the token before it, the URL it
\* was handed, the last token body it was answered with, and for the fetch
\* helper what its login() raised, the body of the last answer, its
\* arguments (the defaults of connector.py:372), the data it returned and
\* the exception one of its requests ended with, and for the charging
\* command what it was called with
NoOp == [name |-> "none", session |-> 0, raised |-> "none", statuses |-> <<>>,
         token_requests |-> 0, logins |-> 0, before |-> NoToken,
         url |-> [scheme |-> "", rest |-> ""],
         answer |-> [json |-> FALSE, access_token |-> "",
                     refresh_token |-> ""],
         login_raised |-> "none",
         body |-> [json |-> FALSE, payload |-> ""],
         allow |-> [allow_empty |-> FALSE, allow_http_error |-> FALSE,
                    allowed_errors |-> <<>>],
         data |-> "None", transport |-> "none",
         command |-> [hierarchy_ok |-> FALSE, arguments |-> "notdict",
                      tronity_id |-> "None"]]

\* status codes the remote end answers with
Statuses == {200, 201, 207, 401, 404, 405, 409, 429, 500, 503, 504}

\* bodies of the token endpoint: a JSON object with an access token and
\* perhaps a refresh token ("" stands for a field the body does not have),
\* or a text that is not JSON
NotJson == [json |-> FALSE, access_token |-> "", refresh_token |-> ""]
TokenBodies ==
    {NotJson} \cup
    {[json |-> TRUE, access_token |-> a, refresh_token |-> r] :
        a \in {"A1"}, r \in {"", "R1"}}

\* the token endpoint's answers; only a 201 body is ever read
TokenResponses ==
    {[status |-> 201, body |-> b] : b \in TokenBodies} \cup
    {[status |-> st, body |-> NotJson] : st \in Statuses \ {201}}

\* OAuth2Session.parse_from_body of auth/openid_session.py: the token dict
\* with the fields the JSON body has
parse_from_body(body) ==
    [k \in {"access_token"} \cup
           (IF body.refresh_token = "" THEN {} ELSE {"refresh_token"}) |->
        IF k = "access_token" THEN body.access_token
        ELSE body.refresh_token]

TokenCreated_AnySuccess(status) == status \in {200, 201}

\* line 66: the status fetch_tokens accepts
TokenCreated(status) == status = 201

fetch_tokens_DropsToken(token, resp) ==
    IF ~TokenCreated(resp.status)
    THEN [token |-> NoToken, raised |-> "TemporaryAuthenticationError"]
    ELSE IF ~resp.body.json
    THEN [token |-> token, raised |-> "JSONDecodeError"]
    ELSE [token |-> parse_from_body(resp.body), raised |-> "none"]

\* fetch_tokens(), lines 56-72, for the answer resp to its one post (64):
\* the token the session holds afterwards and the exception raised
fetch_tokens(token, resp) ==
    IF ~TokenCreated(resp.status)
    THEN [token |-> token, raised |-> "TemporaryAuthenticationError"]
    ELSE IF ~resp.body.json
    THEN [token |-> token, raised |-> "JSONDecodeError"]
    ELSE [token |-> parse_from_body(resp.body), raised |-> "none"]

\* login(), lines 45-48, as run inside another operation: the handshake of
\* OAuth2Session.login (46) changes nothing modelled here, then fetch_tokens
LoginResult(token, resp) == fetch_tokens(token, resp)

\* login() called on session s
login(s, resp) ==
    /\ s \in 1..Len(heap)
    /\ LET r == LoginResult(heap[s].token, resp)
       IN  /\ heap' = [heap EXCEPT ![s].token = r.token]
           /\ op' = [NoOp EXCEPT !.name = "login", !.session = s,
                                 !.raised = r.raised,
                                 !.statuses = <<resp.status>>,
                                 !.token_requests = 1, !.logins = 1,
                                 !.before = heap[s].token,
                                 !.answer = resp.body]
    /\ UNCHANGED <<sessions, tokenstore, cachestore, connVars, obsVars,
                   saved, fetching, refreshing, listing>>

\* the URLs refresh_tokens can be handed: the endpoint refresh() names (53),
\* the same endpoint over plain http, and no URL
TokenUrl == [scheme |-> "https", rest |-> "api.tronity.tech/authentication"]
Urls ==
    {TokenUrl,
     [scheme |-> "http", rest |-> "api.tronity.tech/authentication"],
     [scheme |-> "", rest |-> ""]}

\* oauthlib.oauth2.is_secure_transport, with OAUTHLIB_INSECURE_TRANSPORT
\* unset: the URL begins with https://
is_secure_transport(token_url) == token_url.scheme = "https"

\* line 106
NoEndpoint(token_url) == token_url.scheme = "" /\ token_url.rest = ""

TransportRefused_Never(token_url) == FALSE

\* line 109
TransportRefused(token_url) == ~is_secure_transport(token_url)

Unauthorized_Never(status) == FALSE

\* line 127
Unauthorized(status) == status = 401

TemporaryFailure_Without503(status) == status \in {500, 504}

\* line 130
TemporaryFailure(status) == status \in {500, 503, 504}

\* line 132
Created(status) == status = 201

\* lines 135-137: a token without a refresh_token field is given the
\* refresh_token argument of refresh_tokens
WithRefreshToken(token, refresh_token) ==
    IF token # NoToken /\ "refresh_token" \notin DOMAIN token
    THEN [k \in DOMAIN token \cup {"refresh_token"} |->
            IF k = "refresh_token" THEN refresh_token ELSE token[k]]
    ELSE token

\* refresh_tokens(), lines 74-140, for the answer resp to its post (117) and
\* the answer loginResp to the post of the login() it may call: the token the
\* session holds afterwards, the exception raised, the statuses received in
\* order and the number of login() calls.  parse_from_body (134) leaves the
\* parsed token in self.token, as OAuth2Session's other parsers do.
RefreshResult(token, token_url, refresh_token, resp, loginResp) ==
    IF NoEndpoint(token_url)
    THEN [token |-> token, raised |-> "ValueError", statuses |-> <<>>,
          logins |-> 0]
    ELSE IF TransportRefused(token_url)
    THEN [token |-> token, raised |-> "InsecureTransportError",
          statuses |-> <<>>, logins |-> 0]
    ELSE IF Unauthorized(resp.status)
    THEN [token |-> LoginResult(token, loginResp).token,
          raised |-> LoginResult(token, loginResp).raised,
          statuses |-> <<resp.status, loginResp.status>>, logins |-> 1]
    ELSE IF TemporaryFailure(resp.status)
    THEN [token |-> token, raised |-> "TemporaryAuthenticationError",
          statuses |-> <<resp.status>>, logins |-> 0]
    ELSE IF Created(resp.status)
    THEN [token |-> WithRefreshToken(parse_from_body(resp.body),
                                     refresh_token),
          raised |-> "none", statuses |-> <<resp.status>>, logins |-> 0]
    ELSE [token |-> token, raised |-> "RetrievalError",
          statuses |-> <<resp.status>>, logins |-> 0]

\* refresh_tokens called on session s; the body of a 201 answer is a token
\* in JSON
refresh_tokens(s, token_url, refresh_token, resp, loginResp) ==
    /\ s \in 1..Len(heap)
    /\ Created(resp.status) => resp.body.json
    /\ LET r == RefreshResult(heap[s].token, token_url, refresh_token, resp,
                              loginResp)
       IN  /\ heap' = [heap EXCEPT ![s].token = r.token]
           /\ op' = [NoOp EXCEPT !.name = "refresh_tokens", !.session = s,
                                 !.raised = r.raised,
                                 !.statuses = r.statuses,
                                 !.token_requests = Len(r.statuses),
                                 !.logins = r.logins,
                                 !.before = heap[s].token,
                                 !.url = token_url,
                                 !.answer = IF r.logins = 1
                                            THEN loginResp.body
                                            ELSE resp.body]
    /\ UNCHANGED <<sessions, tokenstore, cachestore, connVars, obsVars,
                   saved, fetching, refreshing, listing>>

\* refresh(), lines 50-54: the fixed endpoint and no refresh_token argument
refresh(s, resp, loginResp) ==
    /\ s \in 1..Len(heap)
    /\ refresh_tokens(s, TokenUrl, "None", resp, loginResp)

\* refresh_tokens as another thread sees it, for an answer 201: line 134 has
\* put the parsed token into self.token and line 135 has not run yet
refresh_tokens_parse(s, token_url, refresh_token, resp) ==
    /\ s \in 1..Len(heap)
    /\ refreshing = <<>>
    /\ ~NoEndpoint(token_url)
    /\ ~TransportRefused(token_url)
    /\ Created(resp.status)
    /\ resp.body.json
    /\ heap' = [heap EXCEPT ![s].token = parse_from_body(resp.body)]
    /\ refreshing' = <<[session |-> s, url |-> token_url,
                        refresh_token |-> refresh_token,
                        before |-> heap[s].token, answer |-> resp.body]>>
    /\ UNCHANGED <<sessions, tokenstore, cachestore, connVars, obsVars,
                   op, saved, fetching, listing>>

\* lines 135-138 of the call that has parsed its answer
refresh_tokens_merge ==
    /\ refreshing # <<>>
    /\ LET r == refreshing[1]
       IN  /\ heap' = [heap EXCEPT ![r.session].token =
                          WithRefreshToken(heap[r.session].token,
                                           r.refresh_token)]
           /\ op' = [NoOp EXCEPT !.name = "refresh_tokens",
                                 !.session = r.session,
                                 !.statuses = <<201>>,
                                 !.token_requests = 1,
                                 !.before = r.before,
                                 !.url = r.url,
                                 !.answer = r.answer]
    /\ refreshing' = <<>>
    /\ UNCHANGED <<sessions, tokenstore, cachestore, connVars, obsVars,
                   saved, fetching, listing>>

\* ============================================================= connector.py
\* the session the connector obtained in __init__ (connector.py:108)
ConnectorSession == 1

\* the Script of fetch outcomes the loop is driven through
Script == <<"success", "RetrievalError", "TooManyRequestsError", "success">>

Alive(t) == pc[t] \in {"clear", "top", "fetch", "wait"}

\* ---- startup(), connector.py:119-123
startup_start ==
    /\ mainpc = "idle"
    /\ nthreads < MaxThreads
    /\ nthreads' = nthreads + 1
    /\ bgThread' = nthreads + 1
    /\ pc' = [pc EXCEPT ![nthreads + 1] = "clear"]
    /\ mainpc' = "startup_healthy"
    /\ UNCHANGED <<notified, stop_event, connection_state, healthy,
                   last_update, intervalValue, garage, mgrVars,
                   obsVars>>
    /\ UNCHANGED sessVars

startup_set_healthy ==
    /\ mainpc = "startup_healthy"
    /\ healthy' = TRUE
    /\ mainpc' = "idle"
    /\ UNCHANGED <<bgThread, nthreads, pc, notified, stop_event,
                   connection_state, last_update, intervalValue, garage, mgrVars, obsVars>>
    /\ UNCHANGED sessVars

\* ---- _background_loop(), connector.py:125-163
\* line 126
background_loop_clear(t) ==
    /\ pc[t] = "clear"
    /\ stop_event' = FALSE
    /\ pc' = [pc EXCEPT ![t] = "top"]
    /\ UNCHANGED <<mainpc, bgThread, nthreads, notified, connection_state,
                   healthy, last_update, intervalValue, garage,
                   mgrVars, obsVars>>
    /\ UNCHANGED sessVars

\* line 127, the event is set: the while loop ends and the thread returns
background_loop_exit(t) ==
    /\ pc[t] = "top"
    /\ stop_event
    /\ pc' = [pc EXCEPT ![t] = "stopped"]
    /\ stopSeen' = stopSeen \ {t}
    /\ UNCHANGED <<mainpc, bgThread, nthreads, notified, stop_event,
                   connection_state, healthy, last_update, intervalValue,
                   garage, mgrVars, lastCycle, trace, sdlog, call,
                   ncalls>>
    /\ UNCHANGED sessVars

\* line 127, the event is not set: lines 128-131, fetch_all() is entered
background_loop_begin_fetch(t) ==
    /\ pc[t] = "top"
    /\ ~stop_event
    /\ pc' = [pc EXCEPT ![t] = "fetch"]
    /\ UNCHANGED <<mainpc, bgThread, nthreads, notified, stop_event,
                   connection_state, healthy, last_update, intervalValue,
                   garage, mgrVars, obsVars>>
    /\ UNCHANGED sessVars

\* lines 128, 133-134 and 137-138: the local variable interval
LocalInterval ==
    IF intervalValue # <<>> THEN intervalValue[1] ELSE DefaultInterval

ClassifiedState_Swapped(outcome) ==
    IF outcome \in {"success", "APICompatibilityError"}
    THEN "CONNECTED" ELSE "ERROR"

\* the connection_state the handlers leave: line 136 and then lines 142,
\* 146, 150, 154, 158 for the exceptions, line 162 for the else clause
ClassifiedState(outcome) ==
    IF outcome = "success" THEN "CONNECTED" ELSE "ERROR"

WaitArg_NoCooldown(outcome, interval) == interval

\* the timeout handed to self._stop_event.wait: line 143 for
\* TooManyRequestsError, lines 147, 151, 155 and 163 otherwise
WaitArg(outcome, interval) ==
    IF outcome = "TooManyRequestsError" THEN Cooldown ELSE interval

Reraised_AlsoTemporary(outcome) ==
    outcome \in {"Exception", "TemporaryAuthenticationError"}

\* the except clause that re-raises: lines 156-160
Reraised(outcome) == outcome = "Exception"

NextStamp(x) == (x % MaxStamp) + 1

LastUpdateAfter_EveryCycle(outcome) == NextStamp(last_update)

\* line 132 runs only when fetch_all() (131) has returned: last_update is
\* given the current time
LastUpdateAfter(outcome) ==
    IF outcome = "success" THEN NextStamp(last_update) ELSE last_update

HealthyAfter_ClearedByEveryError(outcome) ==
    IF outcome = "success" THEN healthy ELSE FALSE

\* line 159 is the only statement of the loop that writes healthy, and it
\* is in the last except clause (156-160); the other handlers (140-155) and
\* the else clause (161-163) leave it as it is
HealthyAfter(outcome) ==
    IF Reraised(outcome) THEN FALSE ELSE healthy

GarageAfterFetch_RemovesUnlisted(outcome, seen) ==
    [v \in Vins |->
        IF v \in seen
        THEN IF garage[v] = "absent" THEN "own" ELSE garage[v]
        ELSE IF outcome = "success" THEN "absent" ELSE garage[v]]

\* fetch_vehicles(), lines 217-261, as far as the garage goes: the listed
\* VINs that are not in the garage are added as vehicles of this connector
\* (226-228); after the whole list, the vehicles this connector manages that
\* were not listed are removed (258-261).  A cycle that fails has added the
\* vehicles it reached and removed none.
GarageAfterFetch(outcome, seen) ==
    [v \in Vins |->
        IF v \in seen
        THEN IF garage[v] = "absent" THEN "own" ELSE garage[v]
        ELSE IF outcome = "success" /\ garage[v] \in {"own", "shared"}
             THEN "absent" ELSE garage[v]]

TraceAfter(ob) ==
    IF Len(trace) < Len(Script) /\ ob.outcome = Script[Len(trace) + 1]
    THEN Append(trace, ob)
    ELSE IF ob.outcome = Script[1] THEN <<ob>> ELSE <<>>

\* fetch_all() returns or raises (131), and the loop classifies the outcome
\* and calls self._stop_event.wait (132-163)
background_loop_cycle(t, outcome, seen) ==
    /\ pc[t] = "fetch"
    /\ garage' = GarageAfterFetch(outcome, seen)
    /\ last_update' = LastUpdateAfter(outcome)
    /\ connection_state' = ClassifiedState(outcome)
    /\ healthy' = HealthyAfter(outcome)
    /\ IF Reraised(outcome)
       THEN /\ pc' = [pc EXCEPT ![t] = "crashed"]
            /\ notified' = notified
            /\ stopSeen' = stopSeen \ {t}
            /\ lastCycle' = [outcome |-> outcome,
                             state |-> connection_state', wait |-> 0]
            /\ trace' = <<>>
       ELSE /\ pc' = [pc EXCEPT ![t] = "wait"]
            \* Event.wait returns at once when the flag is already set
            /\ notified' = [notified EXCEPT ![t] = stop_event]
            /\ stopSeen' = stopSeen
            /\ lastCycle' = [outcome |-> outcome,
                             state |-> connection_state',
                             wait |-> WaitArg(outcome, LocalInterval)]
            /\ trace' = TraceAfter(lastCycle')
    \* what fetch_all() raised is what the handlers see
    /\ fetching[t] \in {"none", outcome}
    /\ fetching' = [fetching EXCEPT ![t] = "none"]
    /\ listing' = IF listing = <<>> THEN <<>> ELSE <<seen>>
    /\ UNCHANGED <<mainpc, bgThread, nthreads, stop_event, intervalValue,
                   mgrVars, sdlog, call, ncalls, op, saved, refreshing>>

\* self._stop_event.wait(t) returns because the event was set
stop_event_wait_signalled(t) ==
    /\ pc[t] = "wait"
    /\ notified[t]
    /\ pc' = [pc EXCEPT ![t] = "top"]
    /\ notified' = [notified EXCEPT ![t] = FALSE]
    /\ UNCHANGED <<mainpc, bgThread, nthreads, stop_event, connection_state,
                   healthy, last_update, intervalValue, garage,
                   mgrVars, obsVars>>
    /\ UNCHANGED sessVars

\* self._stop_event.wait(t) returns because the timeout has passed
stop_event_wait_timeout(t) ==
    /\ pc[t] = "wait"
    /\ ~notified[t]
    /\ pc' = [pc EXCEPT ![t] = "top"]
    /\ UNCHANGED <<mainpc, bgThread, nthreads, notified, stop_event,
                   connection_state, healthy, last_update, intervalValue,
                   garage, mgrVars, obsVars>>
    /\ UNCHANGED sessVars

\* another connector of the process adds itself to the managing_connectors
\* of a vehicle this connector has put into the garage (read at 189, 260)
other_connector_manages(v) ==
    /\ garage[v] = "own"
    /\ garage' = [garage EXCEPT ![v] = "shared"]
    /\ UNCHANGED <<mainpc, bgThread, nthreads, pc, notified, stop_event,
                   connection_state, healthy, last_update, intervalValue,
                   mgrVars, obsVars, sessVars>>

\* ---- shutdown(), connector.py:173-197
\* lines 188-191
shutdown_release ==
    /\ mainpc = "idle"
    /\ garage' = [v \in Vins |->
                    IF garage[v] = "own" THEN "absent" ELSE garage[v]]
    /\ sdlog' = <<"release">>
    /\ mainpc' = "sd_signal"
    /\ UNCHANGED <<bgThread, nthreads, pc, notified, stop_event,
                   connection_state, healthy, last_update, intervalValue, mgrVars, lastCycle, trace, stopSeen, call, ncalls>>
    /\ UNCHANGED sessVars

\* line 192: Event.set() wakes every thread waiting on the event
shutdown_signal ==
    /\ mainpc = "sd_signal"
    /\ stop_event' = TRUE
    /\ notified' = [t \in Threads |-> notified[t] \/ pc[t] = "wait"]
    /\ stopSeen' = stopSeen \cup {t \in Threads : pc[t] \in {"fetch", "wait"}}
    /\ sdlog' = Append(sdlog, "signal")
    /\ mainpc' = "sd_join"
    /\ UNCHANGED <<bgThread, nthreads, pc, connection_state, healthy,
                   last_update, intervalValue, garage, mgrVars,
                   lastCycle, trace, call, ncalls>>
    /\ UNCHANGED sessVars

\* lines 193-194: join() returns once the thread has ended
shutdown_join ==
    /\ mainpc = "sd_join"
    /\ bgThread # 0 => ~Alive(bgThread)
    /\ sdlog' = Append(sdlog, "join")
    /\ mainpc' = "sd_persist"
    /\ UNCHANGED <<bgThread, nthreads, pc, notified, stop_event,
                   connection_state, healthy, last_update, intervalValue,
                   garage, mgrVars, lastCycle, trace, stopSeen, call,
                   ncalls>>
    /\ UNCHANGED sessVars

\* line 195: self.persist() is self._manager.persist() (165-171)
shutdown_persist ==
    /\ mainpc = "sd_persist"
    /\ tokenstore' = Persisted.ts
    /\ cachestore' = Persisted.cs
    /\ sdlog' = Append(sdlog, "persist")
    /\ mainpc' = "sd_close"
    /\ saved' = Snapshot
    /\ UNCHANGED <<sessions, heap, bgThread, nthreads, pc, notified,
                   stop_event, connection_state, healthy, last_update,
                   intervalValue, garage, lastCycle, trace, stopSeen,
                   call, ncalls, op, fetching, refreshing, listing>>

\* line 196
shutdown_close ==
    /\ mainpc = "sd_close"
    /\ sdlog' = Append(sdlog, "close")
    /\ mainpc' = "sd_base"
    /\ UNCHANGED <<bgThread, nthreads, pc, notified, stop_event,
                   connection_state, healthy, last_update, intervalValue,
                   garage, mgrVars, lastCycle, trace, stopSeen, call, ncalls>>
    /\ UNCHANGED sessVars

\* line 197: BaseConnector.shutdown belongs to the carconnectivity library;
\* it changes none of the fields modelled here
shutdown_base ==
    /\ mainpc = "sd_base"
    /\ sdlog' = <<>>
    /\ mainpc' = "idle"
    /\ UNCHANGED <<bgThread, nthreads, pc, notified, stop_event,
                   connection_state, healthy, last_update, intervalValue,
                   garage, mgrVars, lastCycle, trace, stopSeen, call,
                   ncalls>>
    /\ UNCHANGED sessVars

\* ---- _fetch_data(), connector.py:372-406
\* bodies of the API's answers: a JSON payload, or a text that is not JSON
NoData == [json |-> FALSE, payload |-> ""]
DataBodies == {NoData, [json |-> TRUE, payload |-> "d1"]}

\* the API's answers, with the statuses _fetch_data tells apart and two it
\* does not; only the body of a 200 or 207 answer is ever read
DataResponses ==
    {[status |-> st, body |-> b] : st \in {200, 207}, b \in DataBodies} \cup
    {[status |-> st, body |-> NoData] : st \in {401, 404, 429, 500}}

\* allowed_errors: <<>> is None, <<S>> is a list with the members S
AllowLists == {<<>>, <<{}>>, <<{401, 404}>>}

\* the arguments allow_empty, allow_http_error and allowed_errors
FetchArgs ==
    [allow_empty : BOOLEAN, allow_http_error : BOOLEAN,
     allowed_errors : AllowLists]

\* lines 377 and 387
Ok(status) == status \in {200, 207}

TooManyRequests_Never(status) == FALSE

\* line 379
TooManyRequests(status) == status = 429

AsksAuthorization_Never(status) == FALSE

\* line 382
AsksAuthorization(status) == status = 401

Refused_IgnoresList(args, status) == ~args.allow_http_error

\* lines 389 and 391: the condition under which RetrievalError is raised
Refused(args, status) ==
    \/ ~args.allow_http_error
    \/ args.allowed_errors # <<>> /\ status \notin args.allowed_errors[1]

\* status_response.json() (378, 388) and the handler of JSONDecodeError
\* (401-405): the exception raised and the data returned
Decoded(args, body) ==
    IF body.json THEN [raised |-> "none", data |-> body.payload]
    ELSE IF args.allow_empty THEN [raised |-> "none", data |-> "None"]
    ELSE [raised |-> "RetrievalError", data |-> "None"]

RetryRaised_TooManyRequests(args, status) ==
    IF TooManyRequests(status) THEN "TooManyRequestsError"
    ELSE IF Refused(args, status) THEN "RetrievalError" ELSE "none"

\* lines 389-390: what an answer to the repeated request that is not 200 or
\* 207 raises; there is no test for 429 here
RetryRaised(args, status) ==
    IF Refused(args, status) THEN "RetrievalError" ELSE "none"

\* exceptions of requests.exceptions that a request can end with instead of
\* an answer; ConnectTimeout and SSLError are subclasses of ConnectionError
TransportErrors ==
    {"ConnectionError", "ConnectTimeout", "SSLError",
     "ChunkedEncodingError", "ReadTimeout", "RetryError"}

\* the class an except clause matches an exception by
BaseError(e) ==
    IF e \in {"ConnectTimeout", "SSLError"} THEN "ConnectionError" ELSE e

Normalized_WithoutReadTimeout(e) ==
    BaseError(e) \in {"ConnectionError", "ChunkedEncodingError", "RetryError"}

\* the except clauses of lines 393-400
Normalized(e) ==
    BaseError(e) \in {"ConnectionError", "ChunkedEncodingError",
                      "ReadTimeout", "RetryError"}

\* what leaves _fetch_data when a request inside its try raises e
Escaping(e) == IF Normalized(e) THEN "RetrievalError" ELSE e

\* which request of a call ends with an exception, if any: 1 the get of
\* line 375, 2 the post of login() (384), 3 the get of line 385
NoFailure == [at |-> 0, error |-> "none"]
Failures ==
    {NoFailure} \cup {[at |-> n, error |-> e] : n \in 1..3,
                                                e \in TransportErrors}

\* the status recorded for a request that got no answer
NoAnswer == 0

\* how a call has ended: the statuses of its requests in order
FetchEnd(token, raised, data, statuses, logins, login_raised, body, failed) ==
    [token |-> token, raised |-> raised, data |-> data,
     statuses |-> statuses, logins |-> logins,
     login_raised |-> login_raised, body |-> body, transport |-> failed]

\* _fetch_data for the answers r1 to the first get (375), loginResp to the
\* post of login() (384) and r2 to the second get (385), of which the
\* request fail.at raises fail.error instead
FetchResult(token, args, r1, loginResp, r2, fail) ==
    LET lg == LoginResult(token, loginResp)
    IN  IF fail.at = 1
        THEN FetchEnd(token, Escaping(fail.error), "None", <<NoAnswer>>, 0,
                      "none", NoData, fail.error)
        ELSE IF Ok(r1.status)
        THEN FetchEnd(token, Decoded(args, r1.body).raised,
                      Decoded(args, r1.body).data, <<r1.status>>, 0, "none",
                      r1.body, "none")
        ELSE IF TooManyRequests(r1.status)
        THEN FetchEnd(token, "TooManyRequestsError", "None", <<r1.status>>,
                      0, "none", r1.body, "none")
        ELSE IF AsksAuthorization(r1.status)
        THEN IF fail.at = 2
             THEN FetchEnd(token, Escaping(fail.error), "None",
                           <<r1.status>>, 1, fail.error, r1.body, fail.error)
             ELSE IF lg.raised = "JSONDecodeError"
             \* raised by line 69 inside the try of line 374
             THEN FetchEnd(lg.token, Decoded(args, NoData).raised, "None",
                           <<r1.status>>, 1, lg.raised, r1.body, "none")
             ELSE IF lg.raised # "none"
             THEN FetchEnd(lg.token, lg.raised, "None", <<r1.status>>, 1,
                           lg.raised, r1.body, "none")
             ELSE IF fail.at = 3
             THEN FetchEnd(lg.token, Escaping(fail.error), "None",
                           <<r1.status, NoAnswer>>, 1, "none", NoData,
                           fail.error)
             ELSE IF Ok(r2.status)
             THEN FetchEnd(lg.token, Decoded(args, r2.body).raised,
                           Decoded(args, r2.body).data,
                           <<r1.status, r2.status>>, 1, "none", r2.body,
                           "none")
             ELSE FetchEnd(lg.token, RetryRaised(args, r2.status), "None",
                           <<r1.status, r2.status>>, 1, "none", r2.body,
                           "none")
        ELSE IF Refused(args, r1.status)
        THEN FetchEnd(token, "RetrievalError", "None", <<r1.status>>, 0,
                      "none", r1.body, "none")
        ELSE FetchEnd(token, "none", "None", <<r1.status>>, 0, "none",
                      r1.body, "none")

\* a call of _fetch_data on the connector's session by fetch_all(), which
\* thread t runs (131); what it raises ends fetch_all()
fetch_data(t, args, r1, loginResp, r2, fail) ==
    /\ pc[t] = "fetch"
    /\ fetching[t] = "none"
    /\ LET r == FetchResult(heap[ConnectorSession].token, args, r1,
                            loginResp, r2, fail)
       IN  /\ heap' = [heap EXCEPT ![ConnectorSession].token = r.token]
           /\ fetching' = [fetching EXCEPT ![t] = r.raised]
           /\ op' = [NoOp EXCEPT !.name = "_fetch_data",
                                 !.session = ConnectorSession,
                                 !.raised = r.raised,
                                 !.statuses = r.statuses,
                                 !.token_requests = r.logins,
                                 !.logins = r.logins,
                                 !.login_raised = r.login_raised,
                                 !.body = r.body,
                                 !.allow = args,
                                 !.data = r.data,
                                 !.transport = r.transport]
    /\ UNCHANGED <<sessions, tokenstore, cachestore, connVars, obsVars,
                   saved, refreshing, listing>>

\* ---- __on_charging_start_stop(), connector.py:414-449
\* command_arguments: something that is no dict, a dict without 'command',
\* or a dict whose 'command' is START, STOP or another value
CommandArguments == {"notdict", "nocommand", "START", "STOP", "OTHER"}

\* vehicle.tronity_id.value
TronityIds == {"None", "T1"}

\* the API's answers to the command
CommandResponses == {[status |-> st, body |-> NoData] :
                        st \in {200, 401, 405, 409, 500}}

CommandInvalid_AcceptsMissingId(hierarchy_ok, arguments, tronity_id) ==
    \/ ~hierarchy_ok
    \/ arguments \notin {"START", "STOP"}

\* lines 416-426 and 433-434: the arguments for which CommandError is raised
\* before a request is sent
CommandInvalid(hierarchy_ok, arguments, tronity_id) ==
    \/ ~hierarchy_ok
    \/ arguments = "notdict"
    \/ tronity_id = "None"
    \/ arguments = "nocommand"
    \/ arguments \notin {"START", "STOP"}

CommandUrl_StopEndpoint(arguments, tronity_id) ==
    [scheme |-> "https",
     rest |-> "api.tronity.tech/tronity/vehicles/" \o tronity_id
                 \o (IF arguments = "STOP" THEN "/control/stop_charging"
                     ELSE "/control/start_charging")]

\* lines 428 and 431: START and STOP post to the same URL
CommandUrl(arguments, tronity_id) ==
    [scheme |-> "https",
     rest |-> "api.tronity.tech/tronity/vehicles/" \o tronity_id
                 \o "/control/start_charging"]

\* what the hook has done when it ends, for the answer resp to its post
\* (429, 432): the URL posted to, the status received, the CommandError
\* raised (418-434, 436-448) or the arguments returned (449)
CommandOp(hierarchy_ok, arguments, tronity_id, resp) ==
    IF CommandInvalid(hierarchy_ok, arguments, tronity_id)
    THEN [NoOp EXCEPT !.name = "command", !.session = ConnectorSession,
                      !.command = [hierarchy_ok |-> hierarchy_ok,
                                   arguments |-> arguments,
                                   tronity_id |-> tronity_id],
                      !.raised = "CommandError"]
    ELSE [NoOp EXCEPT !.name = "command", !.session = ConnectorSession,
                      !.command = [hierarchy_ok |-> hierarchy_ok,
                                   arguments |-> arguments,
                                   tronity_id |-> tronity_id],
                      !.url = CommandUrl(arguments, tronity_id),
                      !.statuses = <<resp.status>>,
                      !.raised = IF resp.status # 200
                                 THEN "CommandError" ELSE "none",
                      !.data = IF resp.status # 200
                               THEN "None" ELSE arguments]

on_charging_start_stop_MarksError(hierarchy_ok, arguments, tronity_id, resp) ==
    /\ op' = CommandOp(hierarchy_ok, arguments, tronity_id, resp)
    /\ connection_state' = IF op'.raised = "CommandError" THEN "ERROR"
                           ELSE connection_state
    /\ UNCHANGED <<mainpc, bgThread, nthreads, pc, notified, stop_event,
                   healthy, last_update, intervalValue, garage, mgrVars,
                   obsVars, saved, fetching, refreshing, listing>>

\* the command hook, called on the thread of whoever sets the command; it
\* writes no field of the connector
on_charging_start_stop(hierarchy_ok, arguments, tronity_id, resp) ==
    /\ op' = CommandOp(hierarchy_ok, arguments, tronity_id, resp)
    /\ UNCHANGED <<mgrVars, connVars, obsVars, saved, fetching,
                   refreshing, listing>>

\* ------------------------------------------------------------ specifications
NoCall == [service |-> "Tronity", user |-> 0, session |-> 0, raised |-> "none"]
NoCycle == [outcome |-> "none", state |-> "DISCONNECTED", wait |-> 0]

\* the connector after __init__ (52-117): no thread (55), the event clear
\* (56), the state DISCONNECTED (58-59), an interval value (60, 101);
\* healthy and last_update are attributes BaseConnector.__init__ creates
\* (53), unset until startup() and the loop write them
InitConnector ==
    /\ mainpc = "idle"
    /\ bgThread = 0
    /\ nthreads = 0
    /\ pc = [t \in Threads |-> "unstarted"]
    /\ notified = [t \in Threads |-> FALSE]
    /\ stop_event = FALSE
    /\ connection_state = "DISCONNECTED"
    /\ healthy = FALSE
    /\ last_update = 0
    /\ intervalValue \in IntervalValues
    /\ garage = [v \in Vins |-> IF v = "VIN2" THEN "foreign" ELSE "absent"]

InitObservations ==
    /\ lastCycle = NoCycle
    /\ trace = <<>>
    /\ stopSeen = {}
    /\ sdlog = <<>>
    /\ call = NoCall
    /\ ncalls = 0
    /\ op = NoOp
    /\ fetching = [t \in Threads |-> "none"]
    /\ refreshing = <<>>

\* the connector's manager holds the one session __init__ asked for
\* (107-112), built from what the previous run left in the stores
InitWithSession ==
    /\ InitConnector
    /\ tokenstore = (generate_identifier("Tronity", 1) :>
                       [k \in {"token", "metadata"} |->
                          IF k = "token" THEN StoredToken ELSE "{}"])
    /\ cachestore = (generate_identifier("Tronity", 1) :> "{}")
    /\ sessions = (SessionKey("Tronity", 1) :> ConnectorSession)
    /\ heap = <<NewSession("Tronity", 1)>>
    /\ InitObservations
    \* the previous run persisted what the stores hold
    /\ saved = Snapshot

Init == InitWithSession /\ listing = <<>>

ThreadStep(t, listings) ==
    \/ background_loop_clear(t)
    \/ background_loop_exit(t)
    \/ background_loop_begin_fetch(t)
    \/ \E outcome \in Outcomes, seen \in listings :
           background_loop_cycle(t, outcome, seen)
    \/ stop_event_wait_signalled(t)
    \/ stop_event_wait_timeout(t)

CallerStep ==
    \/ startup_set_healthy
    \/ shutdown_signal
    \/ shutdown_join
    \/ shutdown_persist
    \/ shutdown_close
    \/ shutdown_base

Next ==
    \/ startup_start
    \/ startup_set_healthy
    \/ \E t \in Threads : background_loop_clear(t)
    \/ \E t \in Threads : background_loop_exit(t)
    \/ \E t \in Threads : background_loop_begin_fetch(t)
    \/ \E t \in Threads, outcome \in Outcomes, seen \in SUBSET Vins :
           background_loop_cycle(t, outcome, seen)
    \/ \E t \in Threads : stop_event_wait_signalled(t)
    \/ \E t \in Threads : stop_event_wait_timeout(t)
    \/ shutdown_release
    \/ shutdown_signal
    \/ shutdown_join
    \/ shutdown_persist
    \/ shutdown_close
    \/ shutdown_base

\* the connector driven by any calls of startup() and shutdown()
Spec == Init /\ [][Next]_vars

\* The same connector under a fair scheduler, with one configured interval
\* and an account that lists no vehicle: neither is read by the
\* control flow of the loop.
FairInit == Init /\ intervalValue = <<1200>>

FairNext ==
    \/ startup_start
    \/ startup_set_healthy
    \/ \E t \in Threads : background_loop_clear(t)
    \/ \E t \in Threads : background_loop_exit(t)
    \/ \E t \in Threads : background_loop_begin_fetch(t)
    \/ \E t \in Threads, outcome \in Outcomes :
           background_loop_cycle(t, outcome, {})
    \/ \E t \in Threads : stop_event_wait_signalled(t)
    \/ \E t \in Threads : stop_event_wait_timeout(t)
    \/ shutdown_release
    \/ shutdown_signal
    \/ shutdown_join
    \/ shutdown_persist
    \/ shutdown_close
    \/ shutdown_base

\* every started thread keeps running, and a call of startup() or shutdown()
\* that has begun runs on; nothing obliges the caller to begin one
FairSpec ==
    /\ FairInit
    /\ [][FairNext]_vars
    /\ \A t \in Threads : WF_vars(ThreadStep(t, {{}}))
    /\ WF_vars(CallerStep)

\* a SessionManager over stores a previous run may have filled (50-53)
StoredEntries ==
    {<<>>,
     [k \in {"token"} |-> StoredToken],
     [k \in {"metadata"} |-> "{m}"],
     [k \in {"token", "metadata"} |-> IF k = "token" THEN StoredToken
                                       ELSE "{m}"]}

ManagerInit ==
    /\ InitConnector
    /\ intervalValue = <<1200>>
    /\ sessions = <<>>
    /\ heap = <<>>
    /\ \E present \in BOOLEAN, e \in StoredEntries :
          tokenstore = IF present
                       THEN (generate_identifier("Tronity", 1) :> e)
                       ELSE <<>>
    /\ cachestore \in {<<>>, (generate_identifier("Tronity", 1) :> "{c}")}
    /\ InitObservations
    /\ saved = <<>>
    /\ listing = <<>>

ManagerNext ==
    \/ \E service \in Services, o \in CredObjs : get_session(service, o)
    \/ persist

SpecManager == ManagerInit /\ [][ManagerNext]_vars

\* managers of successive runs over the same stores, whose sessions log in
\* and are given a token
PersistNext ==
    \/ \E service \in Services, o \in CredObjs : get_session(service, o)
    \/ persist
    \/ SessionManager_init
    \/ \E s \in 1..Len(heap) :
           login(s, [status |-> 201,
                     body |-> [json |-> TRUE, access_token |-> "A1",
                               refresh_token |-> "R1"]])

SpecPersist == ManagerInit /\ [][PersistNext]_vars

\* the answer to the post of a login() that runs only after status first
LoginAnswers(first, resp) ==
    IF first = 401 THEN TokenResponses ELSE {resp}

\* the connector's session (connector.py:107-112), built over a store that
\* is empty on the first run and holds a token after an earlier one
SessionInit ==
    /\ InitConnector
    /\ intervalValue = <<1200>>
    /\ tokenstore \in
          {<<>>,
           (generate_identifier("Tronity", 1) :>
               [k \in {"token", "metadata"} |->
                  IF k = "token" THEN StoredToken ELSE "{}"])}
    /\ cachestore = <<>>
    /\ sessions = (SessionKey("Tronity", 1) :> ConnectorSession)
    /\ heap = <<NewSession("Tronity", 1)>>
    /\ InitObservations
    /\ saved = <<>>
    /\ listing = <<>>

SessionNext ==
    \/ \E resp \in TokenResponses : login(ConnectorSession, resp)
    \/ \E resp \in TokenResponses :
         \E loginResp \in LoginAnswers(resp.status, resp) :
            refresh(ConnectorSession, resp, loginResp)
    \/ \E token_url \in Urls, resp \in TokenResponses :
         \E loginResp \in LoginAnswers(resp.status, resp) :
            refresh_tokens(ConnectorSession, token_url, "None", resp,
                           loginResp)

SpecSession == SessionInit /\ [][SessionNext]_vars

\* the answer to the second get, sent only after a 401 and a login that
\* returned
SecondAnswers(token, r1, loginResp) ==
    IF r1.status = 401 /\ LoginResult(token, loginResp).raised = "none"
    THEN DataResponses ELSE {r1}

\* the requests of a call that can end with an exception: the first, the
\* login's after a 401, the second after a login that returned; the answer
\* of a request that fails is never read
FailuresAt(token, r1, loginResp, r2) ==
    {NoFailure} \cup
    {f \in Failures :
        \/ f.at = 1 /\ r1 = [status |-> 200, body |-> NoData]
        \/ /\ f.at = 2
           /\ r1.status = 401
           /\ loginResp = [status |-> 201, body |-> NotJson]
        \/ /\ f.at = 3
           /\ r1.status = 401
           /\ LoginResult(token, loginResp).raised = "none"
           /\ r2 = [status |-> 200, body |-> NoData]}

\* the answer to the post of a command, sent only for valid arguments
CommandAnswers(hierarchy_ok, arguments, tronity_id) ==
    IF CommandInvalid(hierarchy_ok, arguments, tronity_id)
    THEN {[status |-> 200, body |-> NoData]} ELSE CommandResponses

\* the first cycle of the polling loop of one thread, whose fetch_all()
\* calls _fetch_data
FetchNext ==
    \/ nthreads = 0 /\ startup_start
    \/ startup_set_healthy
    \/ \E t \in Threads : background_loop_clear(t)
    \/ \E t \in Threads :
           lastCycle = NoCycle /\ background_loop_begin_fetch(t)
    \/ \E t \in Threads, args \in FetchArgs, r1 \in DataResponses :
         \E loginResp \in LoginAnswers(r1.status,
                                       [status |-> 401, body |-> NotJson]) :
           \E r2 \in SecondAnswers(heap[ConnectorSession].token, r1,
                                   loginResp) :
              fetch_data(t, args, r1, loginResp, r2, NoFailure)
    \* fetch_all() fails only where _fetch_data does
    \/ \E t \in Threads, outcome \in Classified \cup {"success"} :
           /\ fetching[t] = "none" => outcome = "success"
           /\ background_loop_cycle(t, outcome, {})
    \/ \E t \in Threads : stop_event_wait_timeout(t)
    \/ \E hierarchy_ok \in BOOLEAN, arguments \in CommandArguments,
          tronity_id \in TronityIds :
         \E resp \in CommandAnswers(hierarchy_ok, arguments, tronity_id) :
           on_charging_start_stop(hierarchy_ok, arguments, tronity_id, resp)

SpecFetch == SessionInit /\ [][FetchNext]_vars

\* the first cycle of the loop over a network that fails: each request of
\* _fetch_data is answered, with a body that is JSON or not, or ends with an
\* exception of the transport
TransportNext ==
    \/ nthreads = 0 /\ startup_start
    \/ startup_set_healthy
    \/ \E t \in Threads : background_loop_clear(t)
    \/ \E t \in Threads :
           lastCycle = NoCycle /\ background_loop_begin_fetch(t)
    \/ \E t \in Threads,
          args \in {a \in FetchArgs : a.allowed_errors = <<>>},
          r1 \in {r \in DataResponses : r.status \in {200, 401}} :
         \E loginResp \in {r \in TokenResponses : r.status = 201} :
           \E r2 \in {r \in SecondAnswers(heap[ConnectorSession].token, r1,
                                          loginResp) :
                         r.status \in {200, 401}} :
              \E fail \in FailuresAt(heap[ConnectorSession].token, r1,
                                      loginResp, r2) :
                 fetch_data(t, args, r1, loginResp, r2, fail)
    \/ \E t \in Threads, outcome \in Classified \cup {"success"} :
           /\ fetching[t] = "none" => outcome = "success"
           /\ background_loop_cycle(t, outcome, {})
    \/ \E t \in Threads : stop_event_wait_timeout(t)

SpecTransport == SessionInit /\ [][TransportNext]_vars

\* the connector with one loop thread, in a process whose other connectors
\* manage vehicles too; the vehicle list each cycle receives is observed
GarageInit == InitWithSession /\ listing = <<{}>>

GarageNext ==
    \/ nthreads = 0 /\ startup_start
    \/ startup_set_healthy
    \/ \E t \in Threads : background_loop_clear(t)
    \/ \E t \in Threads : background_loop_exit(t)
    \/ \E t \in Threads : background_loop_begin_fetch(t)
    \/ \E t \in Threads, outcome \in Outcomes, seen \in SUBSET Vins :
           background_loop_cycle(t, outcome, seen)
    \/ \E t \in Threads : stop_event_wait_signalled(t)
    \/ \E t \in Threads : stop_event_wait_timeout(t)
    \/ shutdown_release
    \/ shutdown_signal
    \/ shutdown_join
    \/ shutdown_persist
    \/ shutdown_close
    \/ shutdown_base
    \/ \E v \in Vins : other_connector_manages(v)

SpecGarage == GarageInit /\ [][GarageNext]_vars

\* the connector's session, whose token the loop's thread replaces through
\* login() and refresh(), while another thread calls Connector.persist()
\* (connector.py:165-171) at any moment; no lock is taken by either
ConcurrentNext ==
    \/ \E resp \in TokenResponses :
           refreshing = <<>> /\ login(ConnectorSession, resp)
    \/ \E resp \in TokenResponses :
           refresh_tokens_parse(ConnectorSession, TokenUrl, "None", resp)
    \/ refresh_tokens_merge
    \/ persist

SpecConcurrent == SessionInit /\ [][ConcurrentNext]_vars

\* ===================================================================== claims
\* C1: the connection_state observed after a cycle has been classified is
\* CONNECTED if and only if that cycle's fetch succeeded and ERROR otherwise,
\* whatever came before; the outcomes success, RetrievalError,
\* TooManyRequestsError, success give CONNECTED, ERROR, ERROR, CONNECTED.
C1_StateFollowsOutcome ==
    /\ lastCycle.outcome \in Classified \cup {"success"} =>
          /\ lastCycle.state = "CONNECTED" <=> lastCycle.outcome = "success"
          /\ lastCycle.state = "ERROR" <=> lastCycle.outcome # "success"
    /\ \A i \in DOMAIN trace :
          trace[i].state =
             IF trace[i].outcome = "success" THEN "CONNECTED" ELSE "ERROR"
    /\ Len(trace) = 4 =>
          [i \in 1..4 |-> trace[i].state] =
             <<"CONNECTED", "ERROR", "ERROR", "CONNECTED">>

\* the four scripted cycles have been classified, the last one a success
\* after two failures
C1_Witness ==
    /\ Len(trace) = 4
    /\ [i \in 1..4 |-> trace[i].outcome] = Script
    /\ lastCycle.outcome = "success"

\* C2: the wait requested after classification is the configured interval
\* (300 when no interval value is configured) after a success, a
\* RetrievalError, an APICompatibilityError or a
\* TemporaryAuthenticationError, and 900 after a TooManyRequestsError; the
\* scripted outcomes give the waits configured, configured, 900, configured.
C2_WaitFollowsOutcome ==
    LET configured == IF intervalValue = <<>> THEN 300 ELSE intervalValue[1]
        expected(outcome) ==
            IF outcome = "TooManyRequestsError" THEN 900 ELSE configured
    IN  /\ lastCycle.outcome \in Classified \cup {"success"} =>
              lastCycle.wait = expected(lastCycle.outcome)
        /\ \A i \in DOMAIN trace : trace[i].wait = expected(trace[i].outcome)
        /\ Len(trace) = 4 =>
              [i \in 1..4 |-> trace[i].wait] =
                 <<configured, configured, 900, configured>>

\* the scripted cycles have run with an interval configured above the
\* cooldown, so that the third wait is shorter than the others
C2_Witness ==
    /\ Len(trace) = 4
    /\ intervalValue = <<1200>>
    /\ trace[3].outcome = "TooManyRequestsError"

\* C3: once the loop of the thread startup() created has ended with an
\* unclassified exception and startup() has returned, healthy is false.
C3_UnhealthyAfterCrash ==
    (bgThread # 0 /\ pc[bgThread] = "crashed" /\ mainpc = "idle")
        => healthy = FALSE

\* C4: a cycle that fails with a classified error never ends the loop: the
\* thread goes on to wait, the wait ends at the head of the loop, and from
\* there the thread begins the next fetch cycle, or stops if and only if it
\* finds the stop signal set; no thread stays waiting or at the head of the
\* loop for ever.
C4_ClassifiedFailureContinues ==
    /\ [][\A t \in Threads :
            /\ (pc[t] = "fetch" /\ pc'[t] # "fetch"
                  /\ lastCycle'.outcome \in Classified) => pc'[t] = "wait"
            /\ (pc[t] = "wait" /\ pc'[t] # "wait") => pc'[t] = "top"
            /\ (pc[t] = "top" /\ pc'[t] # "top") =>
                  /\ pc'[t] \in {"fetch", "stopped"}
                  /\ pc'[t] = "stopped" <=> stop_event]_vars
    /\ \A t \in Threads : []<>(pc[t] \notin {"wait", "top"})

\* a thread waits after a classified failure while no stop is requested
C4_Witness ==
    \E t \in Threads :
        /\ pc[t] = "wait"
        /\ lastCycle.outcome \in Classified
        /\ nthreads = 1
        /\ ~stop_event

\* C5: a thread that was sleeping or fetching when the stop signal was set
\* begins no further fetch cycle and does not sleep until its timeout.
C5_NoFetchAfterStop ==
    [][\A t \in stopSeen :
          /\ ~(pc[t] = "top" /\ pc'[t] = "fetch")
          /\ ~(pc[t] = "wait" /\ ~notified[t] /\ pc'[t] = "top")]_vars

\* C6: once shutdown() has set the stop signal and waits in join(), the
\* thread ends and join() returns.
C6_JoinReturns ==
    (mainpc = "sd_join") ~>
        (mainpc = "sd_persist" /\ (bgThread # 0 => ~Alive(bgThread)))

IsPrefix(s, t) == Len(s) <= Len(t) /\ \A i \in 1..Len(s) : s[i] = t[i]

\* C7: shutdown() signals cancellation, joins the thread, persists the
\* sessions, closes the session and only then releases the vehicles.
C7_ShutdownOrder ==
    IsPrefix(sdlog, <<"signal", "join", "persist", "close", "release">>)

\* C8: at most one thread runs the polling loop and at most one fetch cycle
\* is in progress, whatever calls of startup() and shutdown() are made.
C8_OneLoop ==
    /\ Cardinality({t \in Threads : Alive(t)}) <= 1
    /\ Cardinality({t \in Threads : pc[t] = "fetch"}) <= 1

\* C9: a get_session call whose key already has a session returns that
\* session, creates none, and leaves the session map, the sessions' token,
\* metadata and cache, and both stores as they were.
C9_GetSessionIdempotent ==
    [][(ncalls' # ncalls
          /\ <<call'.service, call'.user>> \in DOMAIN sessions) =>
            /\ call'.raised = "none"
            /\ call'.session = sessions[<<call'.service, call'.user>>]
            /\ UNCHANGED <<sessions, heap, tokenstore, cachestore>>]_vars

\* a second call with the same key has returned the session of the first
C9_Witness ==
    /\ ncalls >= 2
    /\ Len(heap) < ncalls
    /\ call.session \in 1..Len(heap)
    /\ sessions[<<call.service, call.user>>] = call.session

\* C10: credentials with the same identifier and the same secret name one
\* session, and no two sessions of the map share a Session Identifier.
C10_OneSessionPerValue ==
    \A k1, k2 \in DOMAIN sessions :
        /\ (k1[1] = k2[1] /\ CredId(k1[2]) = CredId(k2[2])
              /\ CredSecret(k1[2]) = CredSecret(k2[2]))
              => sessions[k1] = sessions[k2]
        /\ sessions[k1] # sessions[k2] =>
              generate_identifier(k1[1], k1[2])
                 # generate_identifier(k2[1], k2[2])

\* C11: what persist() wrote is what a later manager over the same stores
\* reads back: each store entry holds the token, metadata and cache its
\* session held when persist() ran, whatever the entry held before, and a
\* session that get_session creates for credentials that had a live session
\* at that time holds those values.
C11_PersistRoundTrip ==
    /\ [](\A k \in DOMAIN saved :
            LET identifier == generate_identifier(k[1], k[2])
            IN  /\ identifier \in DOMAIN tokenstore
                /\ identifier \in DOMAIN cachestore
                /\ tokenstore[identifier]["token"] = saved[k].token
                /\ tokenstore[identifier]["metadata"] = saved[k].metadata
                /\ cachestore[identifier] = saved[k].cache)
    /\ [][(ncalls' # ncalls /\ call'.raised = "none"
             /\ <<call'.service, call'.user>> \notin DOMAIN sessions) =>
            \A k \in DOMAIN saved :
               (k[1] = call'.service /\ CredId(k[2]) = CredId(call'.user)
                  /\ CredSecret(k[2]) = CredSecret(call'.user)) =>
                    /\ heap'[call'.session].token = saved[k].token
                    /\ heap'[call'.session].metadata = saved[k].metadata
                    /\ heap'[call'.session].cache = saved[k].cache]_vars

\* C12: after a refresh answered 201 with a body that has no refresh_token,
\* the session's token holds the refresh token the session held before the
\* call.
C12_RefreshKeepsRefreshToken ==
    (/\ op.name = "refresh_tokens"
     /\ op.statuses = <<201>>
     /\ op.answer.refresh_token = ""
     /\ "refresh_token" \in DOMAIN op.before)
        => /\ "refresh_token" \in DOMAIN heap[op.session].token
           /\ heap[op.session].token["refresh_token"]
                 = op.before["refresh_token"]

C14_RefreshStatusClasses ==
    (/\ op.name = "refresh_tokens"
     /\ Len(op.statuses) >= 1)
        => /\ op.statuses[1] \in {500, 503, 504} =>
                 /\ op.raised = "TemporaryAuthenticationError"
                 /\ op.logins = 0
                 /\ op.token_requests = 1
           /\ op.statuses[1] \notin {201, 401, 500, 503, 504} =>
                 /\ op.raised = "RetrievalError"
                 /\ op.logins = 0
                 /\ op.token_requests = 1

\* a refresh answered 503 has raised TemporaryAuthenticationError
C14_Witness ==
    /\ op.name = "refresh_tokens"
    /\ op.statuses = <<503>>
    /\ op.raised = "TemporaryAuthenticationError"

\* C15: refresh_tokens handed a URL that is not https raises
\* InsecureTransportError, sends no request, calls no login() and leaves the
\* session's token as it was.
C15_InsecureUrlRefused ==
    (/\ op.name = "refresh_tokens"
     /\ op.url.rest # ""
     /\ op.url.scheme # "https")
        => /\ op.raised = "InsecureTransportError"
           /\ op.statuses = <<>>
           /\ op.token_requests = 0
           /\ op.logins = 0
           /\ heap[op.session].token = op.before

\* refresh_tokens has been called with an http URL on a session that holds a
\* token
C15_Witness ==
    /\ op.name = "refresh_tokens"
    /\ op.url.scheme = "http"
    /\ op.before # NoToken
    /\ op.raised = "InsecureTransportError"

\* C16: login() sends one token request; answered 201 with a token, the
\* session's token becomes the token of the body, and answered any other
\* status it raises TemporaryAuthenticationError, having sent nothing more
\* and with the token as it was.
C16_LoginOnce ==
    op.name = "login"
        => /\ op.token_requests = 1
           /\ Len(op.statuses) = 1
           /\ op.logins = 1
           /\ (op.statuses[1] = 201 /\ op.answer.json) =>
                 /\ op.raised = "none"
                 /\ heap[op.session].token["access_token"]
                       = op.answer.access_token
                 /\ IF op.answer.refresh_token = ""
                    THEN DOMAIN heap[op.session].token = {"access_token"}
                    ELSE /\ DOMAIN heap[op.session].token
                               = {"access_token", "refresh_token"}
                         /\ heap[op.session].token["refresh_token"]
                               = op.answer.refresh_token
           /\ op.statuses[1] # 201 =>
                 /\ op.raised = "TemporaryAuthenticationError"
                 /\ heap[op.session].token = op.before

\* a login answered 201 has replaced the token the session held
C16_Witness ==
    /\ op.name = "login"
    /\ op.statuses = <<201>>
    /\ op.raised = "none"
    /\ op.before # NoToken
    /\ heap[op.session].token # op.before

\* C17, as claimed: a call of _fetch_data logs in at most once and sends at
\* most two requests; a 401 to its first request is followed by one login()
\* and one repetition of the request, and a repetition answered 200 or 207
\* gives its payload as the result.
C17_OneLoginOneRetry ==
    op.name = "_fetch_data"
        => /\ op.logins <= 1
           /\ Len(op.statuses) <= 2
           /\ op.statuses[1] = 401 =>
                 /\ op.logins = 1
                 /\ Len(op.statuses) = 2
                 /\ (op.statuses[2] \in {200, 207} /\ op.body.json) =>
                       /\ op.raised = "none"
                       /\ op.data = op.body.payload

\* C17, amended: a call of _fetch_data logs in at most once and sends at most
\* two requests; a 401 to its first request is followed by one login(), and
\* by one repetition of the request if and only if that login() returns; a
\* repetition answered 200 or 207 gives its payload as the result; any other
\* first answer is followed by no login() and no repetition.
C17_OneLoginRetryAfterLogin ==
    op.name = "_fetch_data"
        => /\ op.logins <= 1
           /\ Len(op.statuses) \in {1, 2}
           /\ op.statuses[1] = 401 =>
                 /\ op.logins = 1
                 /\ op.token_requests = 1
                 /\ Len(op.statuses) = 2 <=> op.login_raised = "none"
                 /\ (Len(op.statuses) = 2 /\ op.statuses[2] \in {200, 207}
                       /\ op.body.json) =>
                       /\ op.raised = "none"
                       /\ op.data = op.body.payload
           /\ op.statuses[1] # 401 =>
                 /\ op.logins = 0
                 /\ Len(op.statuses) = 1

\* a 401 has been followed by a login and a repetition answered 200, whose
\* payload is the result
C17_Witness ==
    /\ op.name = "_fetch_data"
    /\ op.statuses = <<401, 200>>
    /\ op.logins = 1
    /\ op.raised = "none"
    /\ op.data = "d1"

\* C18: a call of _fetch_data whose request is answered 429 raises
\* TooManyRequestsError, with no login() and no second request, whatever its
\* tolerance arguments are; the cycle it ends is classified as such and the
\* loop waits 900.
C18_TooManyRequestsCoolsDown ==
    /\ [](op.name = "_fetch_data" /\ op.statuses[1] = 429 =>
            /\ op.raised = "TooManyRequestsError"
            /\ op.logins = 0
            /\ op.token_requests = 0
            /\ Len(op.statuses) = 1
            /\ \A t \in Threads :
                  pc[t] = "fetch" => fetching[t] = "TooManyRequestsError")
    /\ [][\A t \in Threads :
            (pc[t] = "fetch" /\ pc'[t] # "fetch"
               /\ fetching[t] = "TooManyRequestsError") =>
                 /\ pc'[t] = "wait"
                 /\ lastCycle'.outcome = "TooManyRequestsError"
                 /\ lastCycle'.wait = 900
                 /\ connection_state' = "ERROR"]_vars

\* a call that tolerates every status was answered 429, and the loop, whose
\* interval is another, waits 900
C18_Witness ==
    /\ op.name = "_fetch_data"
    /\ op.statuses = <<429>>
    /\ op.allow.allow_http_error
    /\ op.allow.allowed_errors = <<>>
    /\ \E t \in Threads : pc[t] = "wait"
    /\ lastCycle.wait = 900
    /\ intervalValue = <<1200>>

\* C19: when the last answer to a call of _fetch_data (the first one unless
\* it is 401 or 429, else the repeated one) is not 200 or 207, the call
\* raises RetrievalError unless the status is tolerated, and then raises
\* nothing and returns None; a status is tolerated exactly when
\* allow_http_error is true and allowed_errors is None or has the status.
C19_ToleratedStatus ==
    LET last == op.statuses[Len(op.statuses)]
        tolerated ==
            /\ op.allow.allow_http_error
            /\ \/ op.allow.allowed_errors = <<>>
               \/ last \in op.allow.allowed_errors[1]
    IN  (/\ op.name = "_fetch_data"
         /\ last \notin {NoAnswer, 200, 207}
         /\ Len(op.statuses) = 2 \/ op.statuses[1] \notin {401, 429})
            => /\ tolerated => (op.raised = "none" /\ op.data = "None")
               /\ ~tolerated => op.raised = "RetrievalError"

\* a repetition answered 404 was tolerated through the list and None
\* returned, and one answered 500, not in the list, was not
C19_Witness ==
    /\ op.name = "_fetch_data"
    /\ op.statuses = <<401, 404>>
    /\ op.allow.allow_http_error
    /\ op.allow.allowed_errors = <<{401, 404}>>
    /\ op.raised = "none"
    /\ op.data = "None"

\* C20: every call to the API answered 401, a fetch or the charging
\* command, is followed by one login() and, when that login() returns, by
\* one repetition of the call.
C20_EveryCallReauthorizes ==
    (/\ op.name \in {"_fetch_data", "command"}
     /\ Len(op.statuses) >= 1
     /\ op.statuses[1] = 401)
        => /\ op.logins = 1
           /\ op.login_raised = "none" => Len(op.statuses) = 2

\* C21: a charging command, returning or raising CommandError, at any point
\* of a fetch cycle, leaves connection_state, healthy and last_update as they
\* were, and leaves the loop where it was: its position, the stop signal,
\* what its fetch has raised and the session it reads are unchanged, so the
\* loop's next step is the one it would have taken; connection_state changes
\* only in the step with which a thread of the loop ends its fetch.
C21_CommandLeavesLoopAlone ==
    [][/\ (op'.name = "command" /\ op' # op) =>
             UNCHANGED <<connection_state, healthy, last_update, pc,
                         notified, stop_event, fetching, heap, lastCycle>>
       /\ connection_state' # connection_state =>
             \E t \in Threads : pc[t] = "fetch" /\ pc'[t] # "fetch"]_vars

\* a command whose post was refused has raised CommandError while the loop
\* is inside a fetch cycle that has already failed, the connector healthy
C21_Witness ==
    /\ op.name = "command"
    /\ op.raised = "CommandError"
    /\ op.statuses = <<409>>
    /\ healthy
    /\ \E t \in Threads : pc[t] = "fetch" /\ fetching[t] = "RetrievalError"

\* C22: the token persist() writes while a refresh of the session is under
\* way is the token held before the refresh or the one held after it, which
\* has a refresh_token field; it is not the parsed token that still lacks
\* one.
C22_PersistWritesCompleteToken ==
    [][(refreshing # <<>> /\ tokenstore' # tokenstore) =>
          LET r == refreshing[1]
              identifier ==
                  generate_identifier(heap[r.session].service,
                                      heap[r.session].user)
              written == tokenstore'[identifier]["token"]
          IN  \/ written = r.before
              \/ "refresh_token" \in DOMAIN written]_vars

\* C23: last_update changes only in the step that ends a successful fetch: a
\* cycle that fails, with a classified error or another exception, leaves
\* last_update as the last successful cycle set it, and a cycle that
\* succeeds has given it a new time when the thread goes to sleep.
C23_LastUpdateOnlyOnSuccess ==
    [][/\ \A t \in Threads :
             (pc[t] = "fetch" /\ pc'[t] # "fetch") =>
                /\ lastCycle'.outcome # "success" =>
                      last_update' = last_update
                /\ lastCycle'.outcome = "success" =>
                      /\ last_update' \notin {0, last_update}
                      /\ pc'[t] = "wait"
       /\ last_update' # last_update =>
             \E t \in Threads :
                /\ pc[t] = "fetch"
                /\ pc'[t] = "wait"
                /\ lastCycle'.outcome = "success"]_vars

\* a cycle has failed after a successful one, and last_update still holds
\* the time of the successful one
C23_Witness ==
    /\ Len(trace) = 2
    /\ trace[1].outcome = "success"
    /\ lastCycle.outcome = "RetrievalError"
    /\ last_update = 1
    /\ \E t \in Threads : pc[t] = "wait"

\* C24: when shutdown() returns, the garage holds no vehicle that only this
\* connector manages, whatever a fetch cycle that was running during the
\* shutdown has done.
C24_NoOwnVehicleAfterShutdown ==
    [][(mainpc = "sd_base" /\ mainpc' = "idle") =>
          \A v \in Vins : garage'[v] # "own"]_vars

C27_CommandValidatesFirst ==
    LET c == op.command
        rejected ==
            \/ ~c.hierarchy_ok
            \/ c.arguments = "notdict"
            \/ c.tronity_id = "None"
            \/ c.arguments = "nocommand"
            \/ c.arguments = "OTHER"
    IN  op.name = "command"
            => /\ rejected =>
                     /\ op.raised = "CommandError"
                     /\ op.statuses = <<>>
               /\ ~rejected =>
                     /\ c.arguments \in {"START", "STOP"}
                     /\ Len(op.statuses) = 1
                     /\ op.logins = 0
                     /\ op.statuses[1] = 200 =>
                           /\ op.raised = "none"
                           /\ op.data = c.arguments
                     /\ op.statuses[1] # 200 =>
                           op.raised = "CommandError"

\* a START command on a well-formed hierarchy whose vehicle has no
\* tronity_id has raised CommandError and sent nothing
C27_Witness ==
    /\ op.name = "command"
    /\ op.command = [hierarchy_ok |-> TRUE, arguments |-> "START",
                     tronity_id |-> "None"]
    /\ op.raised = "CommandError"
    /\ op.statuses = <<>>

\* C28: a START and a STOP command for a vehicle send their POST to one
\* URL, the start_charging endpoint of the vehicle.
C28_StopPostsToStartUrl ==
    (op.name = "command" /\ op.statuses # <<>>)
        => op.url = [scheme |-> "https",
                     rest |-> "api.tronity.tech/tronity/vehicles/"
                                 \o op.command.tronity_id
                                 \o "/control/start_charging"]

\* a STOP command has been posted and answered 200
C28_Witness ==
    /\ op.name = "command"
    /\ op.command.arguments = "STOP"
    /\ op.statuses = <<200>>
    /\ op.raised = "none"
    /\ op.data = "STOP"

\* C29: a call of _fetch_data whose repeated request, after a 401 and a
\* login, is answered 429 does not raise TooManyRequestsError: it raises
\* RetrievalError unless the status is tolerated, and then nothing; the
\* cycle a RetrievalError ends waits the configured interval, not 900.
C29_TooManyRequestsOnRetry ==
    /\ [](op.name = "_fetch_data" /\ op.statuses = <<401, 429>> =>
            LET tolerated ==
                    /\ op.allow.allow_http_error
                    /\ \/ op.allow.allowed_errors = <<>>
                       \/ 429 \in op.allow.allowed_errors[1]
            IN  /\ op.raised = IF tolerated THEN "none" ELSE "RetrievalError"
                /\ \A t \in Threads :
                      pc[t] = "fetch" => fetching[t] = op.raised)
    /\ [][\A t \in Threads :
            (pc[t] = "fetch" /\ pc'[t] # "fetch"
               /\ fetching[t] = "RetrievalError") =>
                 /\ pc'[t] = "wait"
                 /\ lastCycle'.outcome = "RetrievalError"
                 /\ lastCycle'.wait
                       = (IF intervalValue = <<>> THEN 300
                          ELSE intervalValue[1])
                 /\ lastCycle'.wait # 900]_vars

\* a repetition answered 429 has raised RetrievalError and the loop waits
\* its interval
C29_Witness ==
    /\ op.name = "_fetch_data"
    /\ op.statuses = <<401, 429>>
    /\ op.raised = "RetrievalError"
    /\ lastCycle.outcome = "RetrievalError"
    /\ lastCycle.wait = 1200
    /\ \E t \in Threads : pc[t] = "wait"

\* C30: a token operation that fails leaves the session's token as it was:
\* a login() answered anything but 201, a refresh answered 500, 503, 504 or
\* a status it does not recognise, and a refresh answered 401 whose login()
\* is answered anything but 201, raise an error and the session holds the
\* token it held before the call.
C30_FailedOperationKeepsToken ==
    LET failed ==
            \/ op.name = "login" /\ op.statuses[1] # 201
            \/ /\ op.name = "refresh_tokens"
               /\ Len(op.statuses) >= 1
               /\ op.statuses[Len(op.statuses)] # 201
               /\ Len(op.statuses) = 1 => op.statuses[1] # 401
    IN  failed => /\ op.raised \in {"TemporaryAuthenticationError",
                                    "RetrievalError"}
                  /\ heap[op.session].token = op.before

\* a login answered 500 has raised TemporaryAuthenticationError on a
\* session that holds the stored token, and still holds it
C30_Witness ==
    /\ op.name = "login"
    /\ op.statuses = <<500>>
    /\ op.raised = "TemporaryAuthenticationError"
    /\ op.before = StoredToken
    /\ heap[op.session].token = StoredToken

\* C31: the loop writes healthy only where it handles an unclassified
\* exception: the step in which a thread ends a fetch cycle that succeeded
\* or failed with one of the four classified errors leaves healthy as it
\* was, and a step that changes healthy is either the last statement of
\* startup(), which sets it, or a thread ending its loop on an unclassified
\* exception, which clears it.  So once startup() has set healthy, it stays
\* set for as long as no loop has ended with an unclassified exception.
C31_LoopKeepsHealthy ==
    /\ [](((nthreads > 1 \/ (nthreads = 1 /\ mainpc # "startup_healthy"))
           /\ \A t \in Threads : pc[t] # "crashed")
             => healthy = TRUE)
    /\ [][/\ \A t \in Threads :
                (/\ pc[t] = "fetch"
                 /\ pc'[t] # "fetch"
                 /\ lastCycle'.outcome \in Classified \cup {"success"})
                    => (healthy' = healthy /\ pc'[t] = "wait")
          /\ healthy' # healthy =>
                \/ (mainpc = "startup_healthy" /\ mainpc' = "idle" /\ healthy')
                \/ \E t \in Threads :
                      /\ pc[t] = "fetch"
                      /\ pc'[t] = "crashed"
                      /\ lastCycle'.outcome \notin Classified \cup {"success"}
                      /\ ~healthy']_vars

\* startup() has returned, and the loop it started has since been through
\* a success and classified failures, is still running and has left
\* healthy set
C31_Witness ==
    /\ healthy = TRUE
    /\ mainpc = "idle"
    /\ Len(trace) = 3
    /\ lastCycle.outcome = "TooManyRequestsError"
    /\ bgThread # 0
    /\ pc[bgThread] = "wait"
    /\ \A t \in Threads : pc[t] # "crashed"

====
